---------------------------- MODULE Spec2Model ----------------------------
(***************************************************************************)
(* A model of xpathfinder: the undo/redo history of the editable buffers,  *)
(* the namespace-aware loader (xml_utils.parse_xml), the namespace         *)
(* stripper (xml_utils.strip_namespaces), the structure summarizer         *)
(* (xml_utils.summarize_xml_structure), the host window's document state   *)
(* with its prefix validator, and the window's three panes with their run, *)
(* undo and redo handlers (app.MainWindow).                                *)
(*                                                                         *)
(* Python strings that the code takes apart (tags, attribute keys) are     *)
(* sequences of one-character strings; strings that are only compared or   *)
(* extended (prefixes, URIs, snapshots) are TLA+ strings.                  *)
(***************************************************************************)
EXTENDS Integers, Sequences, FiniteSets, TLC

VARIABLES
    h,          \* the History instance under test: [snapshots, index]
    hop,        \* the last History operation called: [op, arg]
    hret,       \* what that operation returned
    hscript,    \* how many calls of Scenario the run has made so far, -1 once it has left it
    pin,        \* parse_xml: the namespace declarations of the root of the file at path
    pout,       \* parse_xml: what it returned
    sin,        \* strip_namespaces: the node it is given
    sout,       \* strip_namespaces: what it returned for sin, then what it returns for that
    din,        \* summarize_xml_structure: the root of the document it is given
    dout,       \* summarize_xml_structure: its tag_tree and the lines it returned
    doc,        \* MainWindow.doc: the loaded file, NoDoc before the first load
    nsmap,      \* MainWindow.nsmap
    ns,         \* MainWindow.ns
    xpath_ns_edit,  \* the prefix field: [text, shown]
    validator_state, \* what NameSpaceValidator.validate returned last
    raised,     \* the exception the last handler of the window let escape, None if none
    llm_query,      \* the text of the query pane
    xpath_query,    \* the text of the expression pane
    code_editor,    \* the text of the code pane
    llm_history,    \* MainWindow.llm_history
    xpath_history,  \* MainWindow.xpath_history
    code_history,   \* MainWindow.code_history
    xpath_expr,     \* MainWindow.xpath_expr
    xpath_result    \* MainWindow.xpath_result

hvars == <<h, hop, hret, hscript>>
pvars == <<pin, pout>>
svars == <<sin, sout>>
dvars == <<din, dout>>
bvars == <<llm_query, xpath_query, code_editor,
           llm_history, xpath_history, code_history, xpath_expr, xpath_result>>
wvars == <<doc, nsmap, ns, xpath_ns_edit, validator_state, raised, bvars>>
vars == <<hvars, pvars, svars, dvars, wvars>>

\* Python's None: no snapshot, no prefix, no text.
None == "<None>"

(***************************************************************************)
(* History (history.HistoryManager).  The module is imported by app.py:14  *)
(* but is not among the sources; it is modelled from section 4.5 of the    *)
(* specification.  The cursor is 0-based as in the specification, and -1   *)
(* while the sequence is empty.                                            *)
(***************************************************************************)

\* Bounds of the History check.
MaxLen == 4
Snapshots == {"a", "b", "c", "d"}

HistoryManager == [snapshots |-> <<>>, index |-> -1]

\* add as a plausible bug would have it: the redo branch is kept.
add_keeps_redo_branch(H, s) ==
    [snapshots |-> Append(H.snapshots, s), index |-> Len(H.snapshots)]

add(H, s) ==
    LET kept == IF Len(H.snapshots) > 0 /\ H.index /= Len(H.snapshots) - 1
                THEN SubSeq(H.snapshots, 1, H.index + 1)
                ELSE H.snapshots
    IN  [snapshots |-> Append(kept, s), index |-> Len(kept)]

current(H) ==
    IF Len(H.snapshots) = 0 THEN None ELSE H.snapshots[H.index + 1]

\* undo as a plausible bug would have it: the snapshot it leaves is popped.
undo_pops(H) ==
    IF H.index = 0 \/ Len(H.snapshots) = 0
    THEN H
    ELSE [snapshots |-> SubSeq(H.snapshots, 1, H.index), index |-> H.index - 1]

undo(H) ==
    IF H.index = 0 \/ Len(H.snapshots) = 0
    THEN H
    ELSE [H EXCEPT !.index = @ - 1]

undo_ret(H) ==
    IF undo(H) = H THEN None ELSE current(undo(H))

redo(H) ==
    IF Len(H.snapshots) = 0 \/ H.index = Len(H.snapshots) - 1
    THEN H
    ELSE [H EXCEPT !.index = @ + 1]

redo_ret(H) ==
    IF redo(H) = H THEN None ELSE current(redo(H))

\* The scenario of section 8 and what each of its calls returns.
Call(o, a) == [op |-> o, arg |-> a]
Scenario ==
    << Call("add", "a"), Call("add", "b"), Call("add", "c"),
       Call("undo", None), Call("undo", None), Call("undo", None),
       Call("redo", None), Call("add", "d"), Call("redo", None) >>
ScenarioRet == << None, None, None, "b", "a", None, "b", None, None >>

Follow(c) ==
    IF hscript >= 0 /\ hscript < Len(Scenario) /\ Scenario[hscript + 1] = c
    THEN hscript + 1
    ELSE -1

\* A part of the program that a specification leaves alone.
Pending == [done |-> FALSE]
HIdle == h = HistoryManager /\ hop = Call("new", None) /\ hret = None /\ hscript = -1
PIdle == pin = <<>> /\ pout = Pending
SIdle == sin = <<>> /\ sout = <<>>
DIdle == din = <<>> /\ dout = Pending
BIdle ==
    /\ llm_query = "" /\ xpath_query = "" /\ code_editor = ""
    /\ llm_history = HistoryManager
    /\ xpath_history = HistoryManager
    /\ code_history = HistoryManager
    /\ xpath_expr = ""
    /\ xpath_result = <<>>
WIdle ==
    /\ doc = <<>> /\ nsmap = <<>> /\ ns = None
    /\ xpath_ns_edit = [text |-> "", shown |-> FALSE]
    /\ validator_state = None
    /\ raised = None
    /\ BIdle

HInit ==
    /\ PIdle /\ SIdle /\ DIdle /\ WIdle
    /\ h = HistoryManager
    /\ hop = Call("new", None)
    /\ hret = None
    /\ hscript = 0

Add(s) ==
    /\ Len(add(h, s).snapshots) <= MaxLen
    /\ h' = add(h, s)
    /\ hop' = Call("add", s)
    /\ hret' = None
    /\ hscript' = Follow(Call("add", s))
    /\ UNCHANGED <<pvars, svars, dvars, wvars>>

Undo ==
    /\ h' = undo(h)
    /\ hop' = Call("undo", None)
    /\ hret' = undo_ret(h)
    /\ hscript' = Follow(Call("undo", None))
    /\ UNCHANGED <<pvars, svars, dvars, wvars>>

Redo ==
    /\ h' = redo(h)
    /\ hop' = Call("redo", None)
    /\ hret' = redo_ret(h)
    /\ hscript' = Follow(Call("redo", None))
    /\ UNCHANGED <<pvars, svars, dvars, wvars>>

Current ==
    /\ hop' = Call("current", None)
    /\ hret' = current(h)
    /\ hscript' = Follow(Call("current", None))
    /\ UNCHANGED <<h, pvars, svars, dvars, wvars>>

HNext ==
    \/ \E s \in Snapshots : Add(s)
    \/ Undo
    \/ Redo
    \/ Current

SpecHistory == HInit /\ [][HNext]_vars

\* C1: every add discards the snapshots after the cursor, appends the snapshot
\* and moves the cursor to it, so that current() is the snapshot and a redo
\* called next returns nothing and changes nothing; and the calls of the
\* section 8 scenario return b, a, nothing, b, nothing.
C1_AddDiscardsRedoBranch ==
    [][ /\ hop'.op = "add" =>
            /\ h'.snapshots = SubSeq(h.snapshots, 1, h.index + 1) \o <<hop'.arg>>
            /\ h'.index = Len(h'.snapshots) - 1
            /\ current(h') = hop'.arg
        /\ (hop.op = "add" /\ hop'.op = "redo") => (hret' = None /\ h' = h)
        /\ hscript' \in {4, 5, 6, 7, 9} => hret' = ScenarioRet[hscript']
      ]_vars

\* The scenario has run to its end: d has replaced the undone c.
C1_Witness ==
    /\ hscript = Len(Scenario)
    /\ h = [snapshots |-> <<"a", "b", "d">>, index |-> 2]
    /\ hret = None

\* The History is empty and has no current snapshot, or its cursor is an index
\* of the sequence.
CursorValid ==
    \/ Len(h.snapshots) = 0 /\ current(h) = None
    \/ h.index >= 0 /\ h.index < Len(h.snapshots)

\* C2: a History is empty, with no current snapshot, or its cursor is an index
\* of the sequence; undo at index 0 or on an empty sequence returns nothing and
\* changes nothing, otherwise it moves the cursor back by one and returns the
\* snapshot there; redo likewise at the last index and forward; neither
\* changes the sequence.
C2_UndoRedoMoveCursorOnly ==
    /\ []CursorValid
    /\ [][ /\ hop'.op = "undo" =>
               /\ h'.snapshots = h.snapshots
               /\ IF h.index = 0 \/ Len(h.snapshots) = 0
                  THEN hret' = None /\ h'.index = h.index
                  ELSE h'.index = h.index - 1 /\ hret' = h.snapshots[h'.index + 1]
           /\ hop'.op = "redo" =>
               /\ h'.snapshots = h.snapshots
               /\ IF h.index = Len(h.snapshots) - 1 \/ Len(h.snapshots) = 0
                  THEN hret' = None /\ h'.index = h.index
                  ELSE h'.index = h.index + 1 /\ hret' = h.snapshots[h'.index + 1]
         ]_vars

\* An undo has been refused at index 0 of a sequence that has a redo branch.
C2_Witness ==
    /\ hop.op = "undo"
    /\ hret = None
    /\ h.index = 0
    /\ Len(h.snapshots) = 3

(***************************************************************************)
(* Namespace Normalizer (xml_utils.parse_xml).  What the function reads of *)
(* the file is the nsmap of its root: a mapping whose keys are prefixes    *)
(* and, for the default namespace, None.  A Python dict is a function; the *)
(* value None in the nsmap slot is NoneMap, the mapping without keys       *)
(* (parse_xml never returns an empty dict).                                *)
(***************************************************************************)

\* Bound: the prefixes a root may declare are x and ns, ns_, ... with up to
\* MaxUnderscores underscores.
MaxUnderscores == 2

RECURSIVE NsWith(_)
NsWith(k) == IF k = 0 THEN "ns" ELSE NsWith(k - 1) \o "_"

DeclPrefixes == {NsWith(k) : k \in 0..MaxUnderscores} \cup {"x"}
URIs == {"urn:x", "urn:y"}

\* The nsmaps a root can have: each prefix undeclared or bound to a URI, the
\* default namespace undeclared, bound to a URI, or reset with xmlns="".
RootNsmaps ==
    { m \in UNION { [D -> URIs \cup {""}] : D \in SUBSET (DeclPrefixes \cup {None}) } :
        \A k \in DOMAIN m : k /= None => m[k] /= "" }

NoneMap == [k \in {} |-> None]

\* dict.get(k)
get(d, k) == IF k \in DOMAIN d THEN d[k] ELSE None

\* The loop of parse_xml as a plausible bug would have it: an if for the while.
unique_prefix_once(ns_, nsmap_) ==
    IF ns_ \in DOMAIN nsmap_ THEN ns_ \o "_" ELSE ns_

RECURSIVE unique_prefix(_, _)
unique_prefix(ns_, nsmap_) ==
    IF ns_ \in DOMAIN nsmap_ THEN unique_prefix(ns_ \o "_", nsmap_) ELSE ns_

parse_xml(root_nsmap) ==
    LET default_ns_uri == get(root_nsmap, None) IN
    IF default_ns_uri /= None /\ default_ns_uri /= ""
    THEN LET ns_ == unique_prefix("ns", root_nsmap) IN
         [done |-> TRUE,
          nsmap |-> [k \in {IF k = None THEN ns_ ELSE k : k \in DOMAIN root_nsmap}
                        |-> IF k = ns_ THEN root_nsmap[None] ELSE root_nsmap[k]],
          ns |-> ns_]
    ELSE [done |-> TRUE, nsmap |-> NoneMap, ns |-> None]

PInit ==
    /\ HIdle /\ SIdle /\ DIdle /\ WIdle
    /\ pin \in RootNsmaps
    /\ pout = Pending

ParseXml ==
    /\ ~pout.done
    /\ pout' = parse_xml(pin)
    /\ UNCHANGED <<pin, hvars, svars, dvars, wvars>>

PNext == ParseXml

SpecParse == PInit /\ [][PNext]_vars

\* The root of the file declares a default namespace URI.
HasDefaultNs(m) == None \in DOMAIN m /\ m[None] /= ""

\* The prefixes the root declares.
Declared(m) == DOMAIN m \ {None}

\* p is ns followed by the least number of underscores that is not declared.
LeastFreePrefix(p, m) ==
    \E k \in 0..(MaxUnderscores + 1) :
        /\ p = NsWith(k)
        /\ p \notin Declared(m)
        /\ \A j \in 0..(k - 1) : NsWith(j) \in Declared(m)

\* C3 as claimed: for a root with a default namespace URI U, the synthesized
\* prefix is ns with the least number of underscores that is not declared, and
\* the returned map has exactly one entry whose value is U, under that prefix,
\* and maps every declared prefix to its URI.
C3_ExactlyOneEntryWithDefaultUri ==
    (pout.done /\ HasDefaultNs(pin)) =>
        /\ LeastFreePrefix(pout.ns, pin)
        /\ {k \in DOMAIN pout.nsmap : pout.nsmap[k] = pin[None]} = {pout.ns}
        /\ \A k \in Declared(pin) : k \in DOMAIN pout.nsmap /\ pout.nsmap[k] = pin[k]

\* C3, amended: for a root with a default namespace URI U, the synthesized
\* prefix is ns with the least number of underscores that is not declared; the
\* returned map has exactly the declared prefixes and the synthesized one as
\* keys, maps the synthesized prefix to U and every declared prefix to its
\* URI; so any other entry whose value is U is a prefix the root itself binds
\* to U.
C3_DefaultRekeyedUnderFreshPrefix ==
    (pout.done /\ HasDefaultNs(pin)) =>
        /\ LeastFreePrefix(pout.ns, pin)
        /\ DOMAIN pout.nsmap = Declared(pin) \cup {pout.ns}
        /\ pout.nsmap[pout.ns] = pin[None]
        /\ \A k \in Declared(pin) : pout.nsmap[k] = pin[k]
        /\ \A k \in DOMAIN pout.nsmap :
              pout.nsmap[k] = pin[None] => (k = pout.ns \/ (k \in Declared(pin) /\ pin[k] = pin[None]))

\* A root that declares ns and ns_ and binds x to the default URI too was
\* parsed: the prefix is ns__ and two entries have the value U.
C3_Witness ==
    /\ pout.done
    /\ HasDefaultNs(pin)
    /\ {"ns", "ns_", "x"} \subseteq Declared(pin)
    /\ pin["x"] = pin[None]
    /\ pout.ns = "ns__"
    /\ pout.nsmap["ns__"] = pout.nsmap["x"]

(***************************************************************************)
(* Python strings as sequences of characters.                              *)
(***************************************************************************)

\* c in s
Contains(s, c) == \E i \in 1..Len(s) : s[i] = c

\* s.split(c, 1)[1], for a string that contains c
split1(s, c) ==
    LET i == CHOOSE j \in 1..Len(s) : s[j] = c /\ \A k \in 1..(j - 1) : s[k] /= c
    IN  SubSeq(s, i + 1, Len(s))

\* s.startswith(pre)
startswith(s, pre) == Len(s) >= Len(pre) /\ SubSeq(s, 1, Len(pre)) = pre

\* bool(s) of a string or None
truthy(s) == s /= None /\ s /= ""

xmlns == <<"x", "m", "l", "n", "s">>

(***************************************************************************)
(* Namespace Stripper (xml_utils.strip_namespaces).  A node is an element, *)
(* a comment or a processing instruction (lxml gives the last two a        *)
(* function as their tag, here their kind); attrib is the ordered sequence *)
(* of the element's (key, value) pairs, keys in lxml's {uri}local form.    *)
(***************************************************************************)

Element(tag, text, tail, attrib, children) ==
    [kind |-> "element", tag |-> tag, text |-> text, tail |-> tail,
     attrib |-> attrib, children |-> children]

\* etree.Comment(text): a new comment, which has no tail
Comment(text) ==
    [kind |-> "comment", tag |-> <<>>, text |-> text, tail |-> None,
     attrib |-> <<>>, children |-> <<>>]

\* A parsed comment or processing instruction with the text that follows it.
Special(kind, text, tail) ==
    [kind |-> kind, tag |-> <<>>, text |-> text, tail |-> tail,
     attrib |-> <<>>, children |-> <<>>]

Return(n) == [raised |-> FALSE, node |-> n]
TypeError == [raised |-> TRUE, node |-> <<>>]

\* _Element.set(key, value): a new value for an attribute the element has, at
\* its place, or a new last attribute
set(attrib, key, value) ==
    IF \E i \in 1..Len(attrib) : attrib[i][1] = key
    THEN [i \in 1..Len(attrib) |->
            IF attrib[i][1] = key THEN <<key, value>> ELSE attrib[i]]
    ELSE Append(attrib, <<key, value>>)

\* The test that skips an attribute.
is_dropped(key) == startswith(key, xmlns) \/ key = xmlns

\* The attribute loop, from the i-th attribute of the source on.
RECURSIVE copy_attrib(_, _, _)
copy_attrib(source_attrib, i, new_attrib) ==
    IF i > Len(source_attrib) THEN new_attrib
    ELSE LET key == source_attrib[i][1]
             value == source_attrib[i][2]
             clean_key == IF Contains(key, "}") THEN split1(key, "}") ELSE key
         IN  IF is_dropped(key)
             THEN copy_attrib(source_attrib, i + 1, new_attrib)
             ELSE copy_attrib(source_attrib, i + 1, set(new_attrib, clean_key, value))

RECURSIVE strip_namespaces(_)
strip_namespaces(source_elem) ==
    IF source_elem.kind = "comment"
    THEN Return(Comment(source_elem.text))
    ELSE IF source_elem.kind /= "element"
    THEN TypeError   \* '}' in source_elem.tag, the tag being a function
    ELSE LET tag_name == IF Contains(source_elem.tag, "}")
                         THEN split1(source_elem.tag, "}")
                         ELSE source_elem.tag
             clean == [i \in 1..Len(source_elem.children) |->
                          strip_namespaces(source_elem.children[i])]
         IN  IF \E i \in 1..Len(clean) : clean[i].raised
             THEN TypeError
             ELSE Return(Element(tag_name,
                                 IF truthy(source_elem.text) THEN source_elem.text ELSE None,
                                 IF truthy(source_elem.tail) THEN source_elem.tail ELSE None,
                                 copy_attrib(source_elem.attrib, 1, <<>>),
                                 [i \in 1..Len(clean) |-> clean[i].node]))

\* Bounds of the trees given to strip_namespaces: the attributes of the given
\* element and the children of the given element.
MaxAttrs == 2
MaxKids == 2

TagA == <<"a">>
TagUA == <<"{", "u", "}", "a">>
KeyX == <<"x">>
KeyUX == <<"{", "u", "}", "x">>
KeyXmlnsx == xmlns \o <<"x">>
KeyUXmlnsx == <<"{", "u", "}">> \o xmlns \o <<"x">>

StripTags == {TagA, TagUA}
\* x, p:x, xmlns (set by a script: the parser keeps declarations out of
\* attrib), xmlnsx and p:xmlnsx
StripKeys == {KeyX, KeyUX, xmlns, KeyXmlnsx, KeyUXmlnsx}
Texts == {None, "t"}

\* Sequences of at most n elements of S.
SeqsUpTo(S, n) == UNION { [1..k -> S] : k \in 0..n }

\* Attributes with distinct keys; the i-th has the value "1", "2", ...
StripAttribs ==
    { [i \in 1..Len(ks) |-> <<ks[i], IF i = 1 THEN "1" ELSE IF i = 2 THEN "2" ELSE "3">>] :
        ks \in { s \in SeqsUpTo(StripKeys, MaxAttrs) :
                    \A i, j \in 1..Len(s) : i /= j => s[i] /= s[j] } }

\* The children: bare elements, an element with an attribute, comments and a
\* processing instruction with their tails, and elements that hold one of these.
StripLeaves ==
    { Element(tg, tx, tl, <<>>, <<>>) : tg \in StripTags, tx \in Texts, tl \in Texts }
    \cup { Element(TagA, None, None, << <<KeyUX, "1">> >>, <<>>) }
    \cup { Special("comment", "c", tl) : tl \in Texts }
    \cup { Special("pi", "p", None) }
StripKidsOfKids ==
    { Special("comment", "c", "t"), Element(TagUA, "t", None, <<>>, <<>>) }
StripChildren ==
    StripLeaves \cup { Element(TagA, None, None, <<>>, <<k>>) : k \in StripKidsOfKids }

StripInputs ==
    { Element(tg, tx, tl, at, ch) :
        tg \in StripTags, tx \in Texts, tl \in Texts, at \in StripAttribs,
        ch \in SeqsUpTo(StripChildren, MaxKids) }
    \cup StripLeaves

SInit ==
    /\ HIdle /\ PIdle /\ DIdle /\ WIdle
    /\ sin \in StripInputs
    /\ sout = <<>>

\* strip_namespaces(node)
StripNamespaces ==
    /\ Len(sout) = 0
    /\ sout' = <<strip_namespaces(sin)>>
    /\ UNCHANGED <<sin, hvars, pvars, dvars, wvars>>

\* strip_namespaces of what the first call returned
StripAgain ==
    /\ Len(sout) = 1
    /\ ~sout[1].raised
    /\ sout' = Append(sout, strip_namespaces(sout[1].node))
    /\ UNCHANGED <<sin, hvars, pvars, dvars, wvars>>

SNext == StripNamespaces \/ StripAgain

SpecStrip == SInit /\ [][SNext]_vars

\* The copy n of node m has m's kind, payload, text and tail, and as many
\* children, each a copy of m's child at its place.
RECURSIVE SameShape(_, _)
SameShape(m, n) ==
    /\ n.kind = m.kind
    /\ (IF truthy(n.text) THEN n.text ELSE None) = (IF truthy(m.text) THEN m.text ELSE None)
    /\ (IF truthy(n.tail) THEN n.tail ELSE None) = (IF truthy(m.tail) THEN m.tail ELSE None)
    /\ Len(n.children) = Len(m.children)
    /\ \A i \in 1..Len(m.children) : SameShape(m.children[i], n.children[i])

\* C4 as claimed: strip_namespaces succeeds on every tree of elements,
\* comments and processing instructions, and its result has a node of the
\* same kind for each node of the input at the same place, with the payload
\* of comments and processing instructions and the text and tail of every
\* node unchanged.
C4_StripKeepsShapeTextAndTail ==
    Len(sout) >= 1 => (~sout[1].raised /\ SameShape(sin, sout[1].node))

\* The reserved namespace of declarations, http://www.w3.org/2000/xmlns/, in
\* the {uri} form of a key.
XmlnsNamespace ==
    << "{", "h", "t", "t", "p", ":", "/", "/", "w", "w", "w", ".", "w", "3", ".",
       "o", "r", "g", "/", "2", "0", "0", "0", "/", "x", "m", "l", "n", "s", "/", "}" >>

\* key is a namespace declaration: xmlns itself or a name in the reserved namespace.
IsNsDeclaration(key) == key = xmlns \/ startswith(key, XmlnsNamespace)

\* The local name of a key or tag.
LocalPart(name) == IF Contains(name, "}") THEN split1(name, "}") ELSE name

\* The attributes of attrib that are not declarations, under their local
\* names, in their order.
RECURSIVE KeptAttributes(_)
KeptAttributes(attrib) ==
    IF Len(attrib) = 0 THEN <<>>
    ELSE LET a == attrib[Len(attrib)]
             before == KeptAttributes(SubSeq(attrib, 1, Len(attrib) - 1))
         IN  IF IsNsDeclaration(a[1]) THEN before
             ELSE Append(before, <<LocalPart(a[1]), a[2]>>)

\* Every element of m has, in its copy in n, exactly its attributes that are
\* not declarations.
RECURSIVE AttributesKept(_, _)
AttributesKept(m, n) ==
    /\ m.kind = "element" =>
          /\ n.attrib = KeptAttributes(m.attrib)
          /\ \A i \in 1..Len(n.attrib) : ~IsNsDeclaration(n.attrib[i][1])
    /\ \A i \in 1..Len(m.children) : AttributesKept(m.children[i], n.children[i])

\* C5 as claimed: for every element strip_namespaces processes, an attribute
\* is dropped if and only if it is a namespace declaration; every other
\* attribute is in the result under its local name, with its value, in the
\* original order, and the result has no attribute that is a declaration.
C5_OnlyDeclarationsDropped ==
    (Len(sout) >= 1 /\ ~sout[1].raised) => AttributesKept(sin, sout[1].node)

\* C6 as claimed: strip_namespaces of a result of strip_namespaces returns a
\* tree with the same tags, attributes, text, tail and children.
C6_StripIdempotent ==
    Len(sout) = 2 => (~sout[2].raised /\ sout[2].node = sout[1].node)

(***************************************************************************)
(* Structure Summarizer (xml_utils.summarize_xml_structure).  tag_tree is  *)
(* a function from local tag names to [count, attributes, children], an    *)
(* entry being made at its first use (defaultdict); a line of the result   *)
(* is a record of what it shows: its indentation in steps of two spaces,   *)
(* the tag between "- <" and ">", and the attribute names listed after     *)
(* "attributes:" (none when the list is left out).                         *)
(***************************************************************************)

\* ord(c), of the characters the tags and keys below are made of
ord(c) ==
    CASE c = "a" -> 97 [] c = "b" -> 98 [] c = "r" -> 114 [] c = "u" -> 117
      [] c = "x" -> 120 [] c = "y" -> 121 [] c = "{" -> 123 [] c = "}" -> 125

\* s < t, of Python strings
RECURSIVE str_lt(_, _)
str_lt(s, t) ==
    IF Len(t) = 0 THEN FALSE
    ELSE IF Len(s) = 0 THEN TRUE
    ELSE IF s[1] /= t[1] THEN ord(s[1]) < ord(t[1])
    ELSE str_lt(Tail(s), Tail(t))

\* sorted(S), of a set of strings
RECURSIVE sorted(_)
sorted(S) ==
    IF S = {} THEN <<>>
    ELSE LET m == CHOOSE x \in S : \A y \in S : x = y \/ str_lt(x, y)
         IN  <<m>> \o sorted(S \ {m})

\* etree.QName(elem).localname
localname(tag) == IF Contains(tag, "}") THEN split1(tag, "}") ELSE tag

\* d[k] = v
put(d, k, v) == [x \in DOMAIN d \cup {k} |-> IF x = k THEN v ELSE d[x]]

\* tag_tree[tag], made by the default factory when absent
entry(tag_tree, tag) ==
    IF tag \in DOMAIN tag_tree THEN tag_tree[tag]
    ELSE [count |-> 0, attributes |-> {}, children |-> <<>>]

\* children[tag] of a defaultdict(int)
child_count(children, tag) == IF tag \in DOMAIN children THEN children[tag] ELSE 0

\* elem.attrib.keys()
keys(attrib) == { attrib[i][1] : i \in 1..Len(attrib) }

RECURSIVE traverse(_, _, _)
RECURSIVE traverse_children(_, _, _, _)
traverse(elem, parent_tag, tag_tree) ==
    IF elem.kind /= "element" THEN tag_tree
    ELSE LET tag == localname(elem.tag)
             counted == put(tag_tree, tag,
                            [entry(tag_tree, tag) EXCEPT
                                !.count = @ + 1,
                                !.attributes = @ \cup keys(elem.attrib)])
             linked == IF parent_tag /= None /\ Len(parent_tag) > 0
                       THEN put(counted, parent_tag,
                                [entry(counted, parent_tag) EXCEPT
                                    !.children = put(@, tag, child_count(@, tag) + 1)])
                       ELSE counted
         IN  traverse_children(elem.children, 1, tag, linked)

\* for child in elem: traverse(child, tag), from the i-th child on
traverse_children(children, i, tag, tag_tree) ==
    IF i > Len(children) THEN tag_tree
    ELSE traverse_children(children, i + 1, tag, traverse(children[i], tag, tag_tree))

RootLine(tag) == [kind |-> "root", indent |-> 0, tag |-> tag, attributes |-> <<>>]
TagLine(indent, tag, attributes) ==
    [kind |-> "tag", indent |-> indent, tag |-> tag, attributes |-> attributes]
RecursiveLine(indent) ==
    [kind |-> "recursive", indent |-> indent, tag |-> <<>>, attributes |-> <<>>]

RECURSIVE format_summary(_, _, _, _)
RECURSIVE format_children(_, _, _, _, _)
format_summary(tag_tree, tag, indent, seen) ==
    LET children == tag_tree[tag].children
        attrs == tag_tree[tag].attributes
        line == TagLine(indent, tag, IF attrs /= {} THEN sorted(attrs) ELSE <<>>)
    IN  IF tag \in seen
        THEN <<line, RecursiveLine(indent + 1)>>
        ELSE <<line>> \o format_children(tag_tree, sorted(DOMAIN children), 1,
                                         indent + 1, seen \cup {tag})

\* for child_tag in child_tags: format_summary(child_tag, indent, seen), from
\* the i-th on
format_children(tag_tree, child_tags, i, indent, seen) ==
    IF i > Len(child_tags) THEN <<>>
    ELSE format_summary(tag_tree, child_tags[i], indent, seen)
         \o format_children(tag_tree, child_tags, i + 1, indent, seen)

summarize_xml_structure(root) ==
    LET tag_tree == traverse(root, None, <<>>)
        root_tag == localname(root.tag)
    IN  [done |-> TRUE,
         tag_tree |-> tag_tree,
         lines |-> <<RootLine(root_tag)>>
                   \o format_children(tag_tree, sorted(DOMAIN tag_tree[root_tag].children),
                                      1, 1, {})]

\* Bounds of the documents given to the summarizer: the children of the root
\* and the children of each of them.
MaxRootKids == 2
MaxChildKids == 1

TagR == <<"r">>
TagB == <<"b">>
TagUR == <<"{", "u", "}", "r">>
KeyY == <<"y">>

Bare(tag, attrib, children) == Element(tag, None, None, attrib, children)

SummaryGrandchildren ==
    { Bare(tg, <<>>, <<>>) : tg \in {TagR, TagA, TagB} }
    \cup { Bare(TagA, << <<KeyY, "2">> >>, <<>>), Special("comment", "c", None) }
SummaryChildren ==
    { Bare(tg, at, ch) :
        tg \in {TagR, TagA, TagB, TagUA},
        at \in { <<>>, << <<KeyX, "1">> >>, << <<KeyUX, "1">> >> },
        ch \in SeqsUpTo(SummaryGrandchildren, MaxChildKids) }
    \cup { Special("comment", "c", None), Special("pi", "p", None) }

\* <r><a x="1"/><a y="2"/><b><a/></b></r>
Section8Document ==
    Bare(TagR, <<>>,
         << Bare(TagA, << <<KeyX, "1">> >>, <<>>),
            Bare(TagA, << <<KeyY, "2">> >>, <<>>),
            Bare(TagB, <<>>, << Bare(TagA, <<>>, <<>>) >>) >>)

SummaryDocuments ==
    { Bare(tg, at, ch) :
        tg \in {TagR, TagUR},
        at \in { <<>>, << <<KeyX, "1">> >> },
        ch \in SeqsUpTo(SummaryChildren, MaxRootKids) }
    \cup { Section8Document }

DInit ==
    /\ HIdle /\ PIdle /\ SIdle /\ WIdle
    /\ din \in SummaryDocuments
    /\ dout = Pending

\* summarize_xml_structure(doc)
Summarize ==
    /\ ~dout.done
    /\ dout' = summarize_xml_structure(din)
    /\ UNCHANGED <<din, hvars, pvars, svars, wvars>>

DNext == Summarize

SpecSummary == DInit /\ [][DNext]_vars

\* Line j opens the path on which line i lies: the last line before i with
\* its lesser indentation.
IsAncestorLine(lines, j, i) ==
    /\ j < i
    /\ lines[j].kind /= "recursive"
    /\ lines[j].indent < lines[i].indent
    /\ \A k \in (j + 1)..(i - 1) : lines[k].indent > lines[j].indent

\* The tag of line i is the tag of a line that opens its path, the root's included.
Reappears(lines, i) ==
    /\ lines[i].kind = "tag"
    /\ \E j \in 1..(i - 1) : IsAncestorLine(lines, j, i) /\ lines[j].tag = lines[i].tag

\* C7 as claimed: summarize_xml_structure returns, and whenever a tag name
\* reappears on its own ancestor path in the rendering walk, the root's tag
\* name being the start of that path, the next line is the one "(recursive
\* element)" line, one step deeper, and the walk does not descend into the
\* tag's children again; the marker is emitted nowhere else.
C7_MarkerWhereTagReappears ==
    dout.done =>
        LET lines == dout.lines IN
        \A i \in 1..Len(lines) :
            /\ Reappears(lines, i) =>
                  /\ i < Len(lines)
                  /\ lines[i + 1] = RecursiveLine(lines[i].indent + 1)
                  /\ i + 2 <= Len(lines) => lines[i + 2].indent <= lines[i].indent
            /\ lines[i].kind = "recursive" => (i > 1 /\ Reappears(lines, i - 1))

\* The element nodes of a tree.
RECURSIVE ElementsOf(_)
ElementsOf(n) ==
    IF n.kind /= "element" THEN {}
    ELSE {n} \cup UNION { ElementsOf(n.children[i]) : i \in 1..Len(n.children) }

\* C8 as claimed: the tags of tag_tree are the local names of the elements of
\* the document (comments and processing instructions add nothing), and the
\* attribute set of a tag is the union, over all the elements with that local
\* name, of the local names of their attributes; the document of section 8
\* gives a the set {x, y} and r the children a and b.
C8_AttributesAreUnionOfLocalNames ==
    dout.done =>
        /\ DOMAIN dout.tag_tree = { LocalPart(e.tag) : e \in ElementsOf(din) }
        /\ \A tg \in DOMAIN dout.tag_tree :
              dout.tag_tree[tg].attributes =
                  UNION { { LocalPart(k) : k \in keys(e.attrib) } :
                            e \in { f \in ElementsOf(din) : LocalPart(f.tag) = tg } }
        /\ din = Section8Document =>
              /\ dout.tag_tree[TagA].attributes = {KeyX, KeyY}
              /\ DOMAIN dout.tag_tree[TagR].children = {TagA, TagB}

\* The tag names that can be reached from the tags of S in at most n steps
\* along the children of tag_tree.
RECURSIVE ReachableFrom(_, _, _)
ReachableFrom(tag_tree, S, n) ==
    IF n = 0 THEN S
    ELSE ReachableFrom(tag_tree,
                       S \cup UNION { DOMAIN tag_tree[tg].children : tg \in S },
                       n - 1)

\* C9 as claimed: the text has exactly one line for each tag name that can be
\* reached from the root's local name, the root included, and no line for
\* another; a line is one step deeper than the line it lies under; it shows
\* the tag's attribute names, sorted, when the tag has any; and the children
\* of a tag follow each other in the order of their names.
C9_OneLinePerReachableTag ==
    dout.done =>
        LET lines == dout.lines
            tag_tree == dout.tag_tree
            named == { i \in 1..Len(lines) : lines[i].kind /= "recursive" }
            reachable == ReachableFrom(tag_tree, {localname(din.tag)},
                                       Cardinality(DOMAIN tag_tree))
        IN  /\ \A tg \in reachable :
                  Cardinality({ i \in named : lines[i].tag = tg }) = 1
            /\ \A i \in named : lines[i].tag \in reachable
            /\ lines[1].indent = 0
            /\ \A i \in 2..Len(lines) :
                  \E j \in 1..(i - 1) :
                      IsAncestorLine(lines, j, i) /\ lines[i].indent = lines[j].indent + 1
            /\ \A i \in named :
                  LET shown == lines[i].attributes IN
                  /\ { shown[k] : k \in 1..Len(shown) } = tag_tree[lines[i].tag].attributes
                  /\ \A k \in 1..(Len(shown) - 1) : str_lt(shown[k], shown[k + 1])
            /\ \A i, j \in named :
                  ( /\ i < j
                    /\ lines[i].indent = lines[j].indent
                    /\ \A k \in i..j : lines[k].indent >= lines[i].indent )
                  => str_lt(lines[i].tag, lines[j].tag)

(***************************************************************************)
(* The host window (app.MainWindow): the loaded document, its namespace    *)
(* map and the prefix of the default namespace, which the user edits in    *)
(* xpath_ns_edit; every edit of the field passes through                   *)
(* NameSpaceValidator.validate.  doc is the file's root nsmap, which is    *)
(* all the model reads of a document, and NoDoc before the first load.     *)
(***************************************************************************)

NoDoc == [k \in {} |-> None]

\* The files the window loads: the root declares at most the default
\* namespace and the prefixes ns and x.
Files == { m \in RootNsmaps : DOMAIN m \subseteq {None, "ns", "x"} }

\* What the user can make of the text of the prefix field.
PrefixInputs == {"", "ns", "ns_", "x", "p"}

\* del d[k]
del(d, k) == [x \in DOMAIN d \ {k} |-> d[x]]

\* validate as a plausible bug would have it: the collision with another
\* prefix of the map is not looked for.
validate_without_collision_check(nsmap_, ns_, v) ==
    LET assigned == put(nsmap_, v, get(nsmap_, ns_)) IN
    IF v /= ns_
    THEN [state |-> "Acceptable", nsmap |-> del(assigned, ns_), ns |-> v]
    ELSE [state |-> "Acceptable", nsmap |-> assigned, ns |-> ns_]

\* NameSpaceValidator.validate(v, pos) on mainWindow.nsmap and mainWindow.ns
validate(nsmap_, ns_, v) ==
    IF v /= ns_ /\ v \in DOMAIN nsmap_
    THEN [state |-> "Invalid", nsmap |-> nsmap_, ns |-> ns_]
    ELSE LET assigned == put(nsmap_, v, get(nsmap_, ns_)) IN
         IF v /= ns_
         THEN [state |-> "Acceptable", nsmap |-> del(assigned, ns_), ns |-> v]
         ELSE [state |-> "Acceptable", nsmap |-> assigned, ns |-> ns_]

Init ==
    /\ HIdle /\ PIdle /\ SIdle /\ DIdle
    /\ doc = NoDoc
    /\ nsmap = NoneMap
    /\ ns = None
    /\ xpath_ns_edit = [text |-> "", shown |-> FALSE]
    /\ validator_state = None
    /\ raised = None
    /\ BIdle

\* What etree.parse raises for a file that cannot be opened and for one that
\* is not well-formed.
ParseErrors == {"OSError", "XMLSyntaxError"}

\* load_xml as a plausible bug would have it: the document state is reset
\* before the file is parsed.
load_xml_raising_resets(doc_, nsmap_, ns_) ==
    [doc |-> NoDoc, nsmap |-> NoneMap, ns |-> None]

\* self.doc, self.nsmap, self.ns when parse_xml raises: the assignment of
\* load_xml is not reached.
load_xml_raising(doc_, nsmap_, ns_) ==
    [doc |-> doc_, nsmap |-> nsmap_, ns |-> ns_]

\* load_xml(path) of a well-formed file.  setText puts self.ns in the field
\* without consulting the field's validator.
LoadXml(file) ==
    LET parsed == parse_xml(file) IN
    /\ doc' = file
    /\ nsmap' = parsed.nsmap
    /\ ns' = parsed.ns
    /\ xpath_ns_edit' = IF parsed.ns /= None
                        THEN [text |-> parsed.ns, shown |-> TRUE]
                        ELSE [xpath_ns_edit EXCEPT !.shown = FALSE]
    /\ raised' = None
    /\ UNCHANGED <<validator_state, bvars, hvars, pvars, svars, dvars>>

\* load_xml(path) of a file that etree.parse refuses with error: parse_xml
\* raises at its first parse and load_xml lets the exception escape.
LoadXmlFails(error) ==
    LET left == load_xml_raising(doc, nsmap, ns) IN
    /\ doc' = left.doc
    /\ nsmap' = left.nsmap
    /\ ns' = left.ns
    /\ raised' = error
    /\ UNCHANGED <<xpath_ns_edit, validator_state, bvars, hvars, pvars, svars, dvars>>

\* The user edits the shown prefix field so that its text is v (the same
\* text again when a selection is replaced by itself); the field keeps its
\* text when the validator answers Invalid.
EditPrefix(v) ==
    /\ xpath_ns_edit.shown
    /\ LET seen == validate(nsmap, ns, v) IN
       /\ nsmap' = seen.nsmap
       /\ ns' = seen.ns
       /\ validator_state' = seen.state
       /\ xpath_ns_edit' = IF seen.state = "Invalid" THEN xpath_ns_edit
                           ELSE [xpath_ns_edit EXCEPT !.text = v]
    /\ raised' = None
    /\ UNCHANGED <<doc, bvars, hvars, pvars, svars, dvars>>

Next ==
    \/ \E file \in Files : LoadXml(file)
    \/ \E error \in ParseErrors : LoadXmlFails(error)
    \/ \E v \in PrefixInputs : EditPrefix(v)

Spec == Init /\ [][Next]_vars

\* C10 as claimed: once a document with a default namespace URI U is loaded,
\* and after every edit of the prefix field, the namespace map that
\* _run_xpath passes on (self.nsmap) has exactly one prefix bound to U, which
\* is self.ns and is not empty; the prefix held before an edit is no key of
\* the map any more; and every declared prefix is bound to its URI.
C10_OneNonEmptyPrefixForDefaultUri ==
    [][ HasDefaultNs(doc') =>
            /\ {k \in DOMAIN nsmap' : nsmap'[k] = doc'[None]} = {ns'}
            /\ ns' /= None /\ ns' /= ""
            /\ (doc' = doc /\ ns' /= ns) => ns \notin DOMAIN nsmap'
            /\ \A k \in Declared(doc') : k \in DOMAIN nsmap' /\ nsmap'[k] = doc'[k]
      ]_vars

\* C12: when a load fails because the file is unreadable or malformed,
\* parse_xml raises instead of returning, and doc, nsmap and ns are exactly
\* what they were before the attempt, whatever loads and renames came before.
C12_FailedLoadKeepsDocumentState ==
    [][ raised' \in ParseErrors => (doc' = doc /\ nsmap' = nsmap /\ ns' = ns)
      ]_vars

\* A load has failed after a document with a default namespace was loaded and
\* its prefix renamed to p.
C12_Witness ==
    /\ raised \in ParseErrors
    /\ HasDefaultNs(doc)
    /\ ns = "p"
    /\ nsmap["p"] = doc[None]

\* C13: validate(v) answers Invalid and leaves the map and the prefix alone
\* when v is not the prefix held and is a key of the map; it answers
\* Acceptable and leaves the map and the prefix alone when v is the prefix
\* held.
C13_ValidateRejectsCollisionAcceptsNoOp ==
    [][ \A v \in PrefixInputs : EditPrefix(v) =>
            /\ (v /= ns /\ v \in DOMAIN nsmap) =>
                   (validator_state' = "Invalid" /\ nsmap' = nsmap /\ ns' = ns)
            /\ (v = ns) =>
                   (validator_state' = "Acceptable" /\ nsmap' = nsmap /\ ns' = ns)
      ]_vars

\* The validator has refused a prefix that the root of the document binds,
\* after it had accepted a rename to p.
C13_Witness ==
    /\ validator_state = "Invalid"
    /\ xpath_ns_edit = [text |-> "p", shown |-> TRUE]
    /\ ns = "p"
    /\ "x" \in DOMAIN nsmap

(***************************************************************************)
(* The three panes of the window (query, expression, code), each with its  *)
(* History, and the handlers that run, undo and redo them.  The text of a  *)
(* pane is a TLA+ string; the scripts of the code pane and the answers of  *)
(* the assistant are taken from small sets, and a script leaves doc and    *)
(* nsmap alone.                                                            *)
(***************************************************************************)

\* The most snapshots the three Histories hold together.
MaxSnapshots == 2

\* Texts without white space at either end, and the white space around them.
Words == {"", "ns:a", "//[", "q", "c"}
Pads == {"", " "}

\* s.strip()
strip(s) == CHOOSE w \in Words : \E l, r \in Pads : s = l \o w \o r

\* What the user types in the panes, and what the assistant answers.
QueryTexts == {"", "q"}
XPathTexts == {"", " ns:a", "//["}
CodeTexts == {"", "c"}
Absent == None
Responses ==
    [xpath : {Absent, "ns:a"}, code : {Absent, "c"}, raises : {FALSE}]
    \cup {[xpath |-> Absent, code |-> Absent, raises |-> TRUE]}

\* The files the panes work on: one that declares only the prefix x, one
\* that declares only a default namespace.
PaneFiles == { [k \in {"x"} |-> "urn:x"], [k \in {None} |-> "urn:x"] }

\* The prefix of the name test of expr, None when it has none.
Prefixes == {"ns", "x"}
prefix_of(expr) ==
    IF \E p \in Prefixes : expr = p \o ":a"
    THEN CHOOSE p \in Prefixes : expr = p \o ":a"
    ELSE None

\* apply_xpath(doc, expr, namespaces): doc.xpath raises for an empty prefix
\* among namespaces, for an expression it cannot compile and for a prefix
\* that namespaces does not bind; otherwise it returns the matches.
apply_xpath(doc_, expr, namespaces) ==
    IF "" \in DOMAIN namespaces
    THEN [raised |-> "TypeError", value |-> <<>>]
    ELSE IF expr = "//["
    THEN [raised |-> "XPathEvalError", value |-> <<>>]
    ELSE IF prefix_of(expr) /= None /\ prefix_of(expr) \notin DOMAIN namespaces
    THEN [raised |-> "XPathEvalError", value |-> <<>>]
    ELSE [raised |-> None, value |-> <<[matches |-> expr, in |-> doc_]>>]

\* _run_xpath on the text of the expression pane
run_xpath(text, history, expr_, result_, doc_, nsmap_) ==
    LET expr == strip(text) IN
    IF ~truthy(expr) \/ doc_ = NoDoc
    THEN [xpath_history |-> history, xpath_expr |-> expr_,
          xpath_result |-> result_, raised |-> None]
    ELSE LET out == apply_xpath(doc_, expr, nsmap_) IN
         [xpath_history |-> add(history, expr), xpath_expr |-> expr,
          xpath_result |-> IF out.raised = None THEN out.value ELSE result_,
          raised |-> out.raised]

\* _run_code on the text of the code pane: what the script raises is caught
run_code(code, history, doc_) ==
    IF ~truthy(code) \/ doc_ = NoDoc THEN history ELSE add(history, code)

\* The undo handlers as a plausible bug would have them: the text of the
\* pane is not saved first.
undo_pane_without_save(text, history) ==
    [history |-> undo(history),
     text |-> IF undo_ret(history) /= None THEN undo_ret(history) ELSE text]

\* _undo_llm, _undo_xpath, _undo_code on the text and the History of the pane
undo_pane(text, history) ==
    LET saved == IF current(history) /= text THEN add(history, text) ELSE history
        prev == undo_ret(saved)
    IN  [history |-> undo(saved), text |-> IF prev /= None THEN prev ELSE text]

\* _redo_llm, _redo_xpath, _redo_code
redo_pane(text, history) ==
    LET nxt == redo_ret(history)
    IN  [history |-> redo(history), text |-> IF nxt /= None THEN nxt ELSE text]

\* The snapshots of the three Histories fit the bound.
Fits(a, b, c) ==
    Len(a.snapshots) + Len(b.snapshots) + Len(c.snapshots) <= MaxSnapshots

dwvars == <<doc, nsmap, ns, xpath_ns_edit, validator_state>>
ovars == <<hvars, pvars, svars, dvars>>

TypeQuery(t) ==
    /\ llm_query' = t
    /\ raised' = None
    /\ UNCHANGED <<xpath_query, code_editor, llm_history, xpath_history,
                   code_history, xpath_expr, xpath_result, dwvars, ovars>>

TypeXpath(t) ==
    /\ xpath_query' = t
    /\ raised' = None
    /\ UNCHANGED <<llm_query, code_editor, llm_history, xpath_history,
                   code_history, xpath_expr, xpath_result, dwvars, ovars>>

TypeCode(t) ==
    /\ code_editor' = t
    /\ raised' = None
    /\ UNCHANGED <<llm_query, xpath_query, llm_history, xpath_history,
                   code_history, xpath_expr, xpath_result, dwvars, ovars>>

RunXpath ==
    LET ran == run_xpath(xpath_query, xpath_history, xpath_expr, xpath_result,
                         doc, nsmap) IN
    /\ Fits(llm_history, ran.xpath_history, code_history)
    /\ xpath_history' = ran.xpath_history
    /\ xpath_expr' = ran.xpath_expr
    /\ xpath_result' = ran.xpath_result
    /\ raised' = ran.raised
    /\ UNCHANGED <<llm_query, xpath_query, code_editor, llm_history,
                   code_history, dwvars, ovars>>

RunCode ==
    /\ Fits(llm_history, xpath_history, run_code(code_editor, code_history, doc))
    /\ code_history' = run_code(code_editor, code_history, doc)
    /\ raised' = None
    /\ UNCHANGED <<llm_query, xpath_query, code_editor, llm_history,
                   xpath_history, xpath_expr, xpath_result, dwvars, ovars>>

\* _run_llm when the assistant answers response, or when the call of the
\* assistant raises.
RunLlm(response) ==
    LET prompt == strip(llm_query)
        query == IF response.xpath /= Absent THEN response.xpath ELSE xpath_query
        ran == IF response.xpath /= Absent
               THEN run_xpath(query, xpath_history, xpath_expr, xpath_result,
                              doc, nsmap)
               ELSE [xpath_history |-> xpath_history, xpath_expr |-> xpath_expr,
                     xpath_result |-> xpath_result, raised |-> None]
        coded == response.code /= Absent /\ ran.raised = None
        code == IF coded THEN response.code ELSE code_editor
        code_ran == IF coded THEN run_code(code, code_history, doc)
                    ELSE code_history
    IN
    IF ~truthy(prompt)
    THEN /\ raised' = None
         /\ UNCHANGED <<bvars, dwvars, ovars>>
    ELSE IF response.raises
    THEN /\ Fits(add(llm_history, prompt), xpath_history, code_history)
         /\ llm_history' = add(llm_history, prompt)
         /\ raised' = "LLMError"
         /\ UNCHANGED <<llm_query, xpath_query, code_editor, xpath_history,
                        code_history, xpath_expr, xpath_result, dwvars, ovars>>
    ELSE /\ Fits(add(llm_history, prompt), ran.xpath_history, code_ran)
         /\ llm_history' = add(llm_history, prompt)
         /\ xpath_query' = query
         /\ xpath_history' = ran.xpath_history
         /\ xpath_expr' = ran.xpath_expr
         /\ xpath_result' = ran.xpath_result
         /\ code_editor' = code
         /\ code_history' = code_ran
         /\ raised' = ran.raised
         /\ UNCHANGED <<llm_query, dwvars, ovars>>

UndoLlm ==
    LET undone == undo_pane(llm_query, llm_history) IN
    /\ Fits(undone.history, xpath_history, code_history)
    /\ llm_history' = undone.history
    /\ llm_query' = undone.text
    /\ raised' = None
    /\ UNCHANGED <<xpath_query, code_editor, xpath_history, code_history,
                   xpath_expr, xpath_result, dwvars, ovars>>

RedoLlm ==
    LET redone == redo_pane(llm_query, llm_history) IN
    /\ llm_history' = redone.history
    /\ llm_query' = redone.text
    /\ raised' = None
    /\ UNCHANGED <<xpath_query, code_editor, xpath_history, code_history,
                   xpath_expr, xpath_result, dwvars, ovars>>

UndoXpath ==
    LET undone == undo_pane(xpath_query, xpath_history) IN
    /\ Fits(llm_history, undone.history, code_history)
    /\ xpath_history' = undone.history
    /\ xpath_query' = undone.text
    /\ raised' = None
    /\ UNCHANGED <<llm_query, code_editor, llm_history, code_history,
                   xpath_expr, xpath_result, dwvars, ovars>>

RedoXpath ==
    LET redone == redo_pane(xpath_query, xpath_history) IN
    /\ xpath_history' = redone.history
    /\ xpath_query' = redone.text
    /\ raised' = None
    /\ UNCHANGED <<llm_query, code_editor, llm_history, code_history,
                   xpath_expr, xpath_result, dwvars, ovars>>

UndoCode ==
    LET undone == undo_pane(code_editor, code_history) IN
    /\ Fits(llm_history, xpath_history, undone.history)
    /\ code_history' = undone.history
    /\ code_editor' = undone.text
    /\ raised' = None
    /\ UNCHANGED <<llm_query, xpath_query, llm_history, xpath_history,
                   xpath_expr, xpath_result, dwvars, ovars>>

RedoCode ==
    LET redone == redo_pane(code_editor, code_history) IN
    /\ code_history' = redone.history
    /\ code_editor' = redone.text
    /\ raised' = None
    /\ UNCHANGED <<llm_query, xpath_query, llm_history, xpath_history,
                   xpath_expr, xpath_result, dwvars, ovars>>

PanesNext ==
    \/ \E file \in PaneFiles : LoadXml(file)
    \/ \E t \in QueryTexts : TypeQuery(t)
    \/ \E t \in XPathTexts : TypeXpath(t)
    \/ \E t \in CodeTexts : TypeCode(t)
    \/ RunXpath
    \/ RunCode
    \/ \E response \in Responses : RunLlm(response)
    \/ UndoLlm
    \/ RedoLlm
    \/ UndoXpath
    \/ RedoXpath
    \/ UndoCode
    \/ RedoCode

SpecPanes == Init /\ [][PanesNext]_vars

\* C11 as claimed: when _run_xpath fails with a query error, the document,
\* the three Histories (snapshots and cursor) and the stored last expression
\* and last result are what they were before the attempt.
C11_QueryErrorLeavesStateAlone ==
    [][ (RunXpath /\ raised' = "XPathEvalError") =>
            /\ doc' = doc
            /\ llm_history' = llm_history
            /\ xpath_history' = xpath_history
            /\ code_history' = code_history
            /\ xpath_expr' = xpath_expr
            /\ xpath_result' = xpath_result
      ]_vars

\* After the unsaved text of a pane is saved, its History has no earlier
\* snapshot to go back to.
NothingToUndo(text, history) ==
    LET saved == IF current(history) /= text THEN add(history, text) ELSE history
    IN  saved.index <= 0

\* C14: for each pane, when Undo changes the text of the pane, a Redo pressed
\* next puts back the text from before the Undo; when Undo has nothing to go
\* back to, the text stays; and Undo and Redo of one pane leave the text and
\* the History of the two other panes alone.
C14_RedoRestoresWhatUndoChanged ==
    [][ /\ UndoLlm =>
            /\ llm_query' /= llm_query =>
                   redo_pane(llm_query', llm_history').text = llm_query
            /\ NothingToUndo(llm_query, llm_history) => llm_query' = llm_query
            /\ UNCHANGED <<xpath_query, xpath_history, code_editor, code_history>>
        /\ UndoXpath =>
            /\ xpath_query' /= xpath_query =>
                   redo_pane(xpath_query', xpath_history').text = xpath_query
            /\ NothingToUndo(xpath_query, xpath_history) => xpath_query' = xpath_query
            /\ UNCHANGED <<llm_query, llm_history, code_editor, code_history>>
        /\ UndoCode =>
            /\ code_editor' /= code_editor =>
                   redo_pane(code_editor', code_history').text = code_editor
            /\ NothingToUndo(code_editor, code_history) => code_editor' = code_editor
            /\ UNCHANGED <<llm_query, llm_history, xpath_query, xpath_history>>
        /\ RedoLlm =>
            UNCHANGED <<xpath_query, xpath_history, code_editor, code_history>>
        /\ RedoXpath =>
            UNCHANGED <<llm_query, llm_history, code_editor, code_history>>
        /\ RedoCode =>
            UNCHANGED <<llm_query, llm_history, xpath_query, xpath_history>>
      ]_vars

\* Undo has taken the expression pane back from the unsaved text //[ to the
\* expression that was run before, and Redo would put //[ back; the two
\* other panes hold text of their own meanwhile.
C14_Witness ==
    /\ xpath_history = [snapshots |-> <<"ns:a", "//[">>, index |-> 0]
    /\ xpath_query = "ns:a"
    /\ xpath_expr = "ns:a"
    /\ redo_pane(xpath_query, xpath_history).text = "//["
    /\ llm_query = "q" /\ llm_history = HistoryManager
    /\ code_editor = "c" /\ code_history = HistoryManager

=============================================================================
